---- MODULE Spec2Model ----
(***************************************************************************)
(* Model of src/main.py: the CoinGecko -> Google Sheets price updater.     *)
(*                                                                         *)
(* One process runs sync_to_sheet once at start and then on every          *)
(* scheduler tick.  A run reads the marker cell A1, and either collects    *)
(* the top TOTAL_COINS coins page by page and writes the whole table       *)
(* (full load), or re-queries the prices of the frozen ids batch by batch  *)
(* and writes column C only (refresh).                                     *)
(*                                                                         *)
(* The source's sizes (PER_PAGE = 250, TOTAL_COINS = 2000) are scaled down *)
(* so that the state space is finite and small; TOTAL_COINS is drawn at    *)
(* start from TotalChoices so that both a universe size that PER_PAGE      *)
(* divides and one that it does not are covered.                           *)
(*                                                                         *)
(* Specifications: Spec (the process and its scheduler), InterruptSpec     *)
(* (Spec plus termination from outside at any point), LiveSpec (one run    *)
(* from an empty or a loaded store, with the upstream eventually           *)
(* answering) and LoadSpec (load_frozen_coins on every file content).      *)
(***************************************************************************)
EXTENDS Integers, Sequences, FiniteSets, TLC

\* ---------------------------------------------------------------- sizes
PER_PAGE == 2                   \* main.py:16 (250 in the source)
TotalChoices == {4, 5}          \* values of TOTAL_COINS (main.py:17, 2000)
MaxAttempts == 1                \* the retries of one page or batch are counted up to this
MaxFileLen == 6                 \* longest content of frozen_coins.json tried by LoadSpec

\* ------------------------------------------------------- upstream universe
Ids == {"btc", "eth", "xrp", "sol", "ada"}

\* The rankings the feed may be in when a page is requested.  The second
\* swaps the coins on either side of the first page boundary.
Rankings ==
    { <<"btc", "eth", "xrp", "sol", "ada">>,
      <<"btc", "xrp", "eth", "sol", "ada">> }

\* current_price of a coin as the feed reports it (one value per coin, so
\* that a price in the wrong row is visible).
PriceOf(id) ==
    CASE id = "btc" -> "101"
      [] id = "eth" -> "201"
      [] id = "xrp" -> "301"
      [] id = "sol" -> "401"
      [] OTHER      -> "501"

\* The feed's record of a coin: lower-case symbol, current price.
FeedRecord(id) == [id |-> id, symbol |-> id, current_price |-> PriceOf(id)]

\* str.upper() on the symbols of the universe.
Upper(s) ==
    CASE s = "btc" -> "BTC"
      [] s = "eth" -> "ETH"
      [] s = "xrp" -> "XRP"
      [] s = "sol" -> "SOL"
      [] s = "ada" -> "ADA"
      [] OTHER     -> s

Min(a, b) == IF a < b THEN a ELSE b
Max(a, b) == IF a > b THEN a ELSE b

\* Python's s[:n]
Take(s, n) == SubSeq(s, 1, Min(n, Len(s)))
\* Python's s[i:j] (0-based, half-open), 0 <= i <= j
Slice(s, i, j) == SubSeq(s, i + 1, Min(j, Len(s)))

NoneVal == "<None>"
Blank == ""

VARIABLES
    TOTAL_COINS,   \* configuration, fixed at start
    sheet,         \* the worksheet: a sequence of rows [a, b, c]
    file,          \* frozen_coins.json: [kind, data]
    proc,          \* "initial" | "scheduler" | "dead"
    pc,            \* position of the run in progress, "idle" when none
    page,          \* fetch_top_coins_with_price: loop variable
    items,         \* fetch_top_coins_with_price: accumulated records
    coins,         \* sync_to_sheet: the collector's result
    frozen_ids,    \* sync_to_sheet / update_prices_only: the ids refreshed
    i,             \* update_prices_only: batch offset
    prices,        \* update_prices_only: accumulated price column
    attempts,      \* retries made for the current page or batch
    last,          \* history: the last upstream response of the run
    accepted,      \* history: the page payloads that passed the length test
    sheet0,        \* history: the worksheet when the current run started
    file0,         \* history: the file when the current run started
    result,        \* history: how the last run ended, "none" while one runs
    wrote,         \* history: the store write issued by the current run
    fullWritten,   \* history: some run has completed write_full_table
    inflight,      \* executions of sync_to_sheet in progress
    skipped,       \* history: a tick was skipped since the run's last step
    wksExists,     \* the spreadsheet has the worksheet
    wks0           \* history: wksExists when the current run started

vars == << TOTAL_COINS, sheet, file, proc, pc, page, items, coins, frozen_ids,
           i, prices, attempts, last, accepted, sheet0, file0, result,
           wrote, fullWritten, inflight, skipped, wksExists, wks0 >>

PAGES == TOTAL_COINS \div PER_PAGE

\* ------------------------------------------------------------- the store
HeaderRow == [a |-> "ID", b |-> "Ticker", c |-> "Price (USD)"]

\* wks.acell("A1").value
ReadA1(sh) == IF Len(sh) = 0 \/ sh[1].a = Blank THEN NoneVal ELSE sh[1].a

RowOr(sh, k) == IF k <= Len(sh) THEN sh[k] ELSE [a |-> Blank, b |-> Blank, c |-> Blank]

\* wks.update(values, "A1:C<n>"): rows 1..n are overwritten, the rest stay.
UpdateRangeABC(sh, values) ==
    [k \in 1..Max(Len(sh), Len(values)) |->
        IF k <= Len(values) THEN values[k] ELSE sh[k]]

\* Variant of UpdateRangeC whose range starts at C1.
UpdateRangeC_FromRow1(sh, col) ==
    IF Len(col) = 0 THEN sh
    ELSE [k \in 1..Max(Len(sh), Len(col)) |->
            IF k <= Len(col)
            THEN [RowOr(sh, k) EXCEPT !.c = col[k]]
            ELSE RowOr(sh, k)]

\* wks.update(col, "C2:C<n+1>"): column C of rows 2..n+1 is overwritten.
UpdateRangeC(sh, col) ==
    IF Len(col) = 0 THEN sh
    ELSE [k \in 1..Max(Len(sh), Len(col) + 1) |->
            IF k >= 2 /\ k <= Len(col) + 1
            THEN [RowOr(sh, k) EXCEPT !.c = col[k - 1]]
            ELSE RowOr(sh, k)]

RECURSIVE TrimBlank(_)
TrimBlank(s) ==
    IF Len(s) > 0 /\ s[Len(s)] = Blank THEN TrimBlank(SubSeq(s, 1, Len(s) - 1)) ELSE s

\* wks.col_values(1): column A, trailing empty cells dropped.
ColValues1(sh) == TrimBlank([k \in 1..Len(sh) |-> sh[k].a])

\* Column A below the header row.
ColumnAIds(sh) == [k \in 1..(Len(sh) - 1) |-> sh[k + 1].a]

\* ------------------------------------------------------- frozen-set file
NoFile == [kind |-> "missing", data |-> << >>]
CorruptFile == [kind |-> "corrupt", data |-> << >>]
ListFile(ids) == [kind |-> "list", data |-> ids]

\* A file that parses to a JSON value other than a list (a string, an
\* object), with the elements len() would count.
NonListFile(data) == [kind |-> "nonlist", data |-> data]

None == [some |-> FALSE, val |-> << >>]
Some(s) == [some |-> TRUE, val |-> s]

\* Variant of load_frozen_coins that returns the whole list.
load_frozen_coins_NoTruncate(f) ==
    IF f.kind = "list" /\ Len(f.data) >= TOTAL_COINS
    THEN Some(f.data)
    ELSE None

\* lines 45-55.  A missing file skips the body (line 46); a file that cannot
\* be opened or parsed raises inside the try and the handler of lines 53-54
\* falls through to `return None`.
load_frozen_coins(f) ==
    IF f.kind = "list" /\ Len(f.data) >= TOTAL_COINS
    THEN Some(Take(f.data, TOTAL_COINS))
    ELSE None

\* `if not frozen_ids`: None and the empty list are both falsy.
Falsy(opt) == ~opt.some \/ Len(opt.val) = 0

\* ---------------------------------------------------------- the feed
\* Page p of ranking r, PER_PAGE records.
FeedPage(r, p) ==
    [k \in 1..PER_PAGE |-> FeedRecord(r[(p - 1) * PER_PAGE + k])]

\* The records a filtered query for `chunk` returns when the feed omits the
\* ids in `omit`.
FeedBatch(chunk, omit) ==
    { FeedRecord(chunk[k]) : k \in { j \in 1..Len(chunk) : chunk[j] \notin omit } }

\* lines 106-111: one accepted payload as records {id, symbol, price}
ToItems(data) ==
    [k \in 1..Len(data) |->
        [id |-> data[k].id, symbol |-> Upper(data[k].symbol),
         price |-> data[k].current_price]]

RECURSIVE Flatten(_)
Flatten(ss) == IF Len(ss) = 0 THEN << >> ELSE Head(ss) \o Flatten(Tail(ss))

IdsOf(cs) == [k \in 1..Len(cs) |-> cs[k].id]

NoResp == [kind |-> "none", page |-> 0, len |-> 0, ids |-> {}, after429 |-> FALSE]
NoWrite == [range |-> "none", last_row |-> 0, nrows |-> 0]

Init ==
    /\ TOTAL_COINS \in TotalChoices
    /\ sheet = << >>
    /\ file = NoFile
    /\ proc = "initial"
    /\ pc = "idle"
    /\ page = 0
    /\ items = << >>
    /\ coins = << >>
    /\ frozen_ids = << >>
    /\ i = 0
    /\ prices = << >>
    /\ attempts = 0
    /\ last = NoResp
    /\ accepted = << >>
    /\ sheet0 = << >>
    /\ file0 = NoFile
    /\ result = "none"
    /\ wrote = NoWrite
    /\ fullWritten = FALSE
    /\ inflight = 0
    /\ skipped = FALSE
    /\ wksExists \in BOOLEAN
    /\ wks0 = wksExists

\* ------------------------------------------------------------ run frame
locals == << page, items, coins, frozen_ids, i, prices, attempts >>

\* The locals of a run that is not in progress.
ClearLocals ==
    /\ page' = 0
    /\ items' = << >>
    /\ coins' = << >>
    /\ frozen_ids' = << >>
    /\ i' = 0
    /\ prices' = << >>
    /\ attempts' = 0

\* sync_to_sheet returns.  After the initial call the scheduler is started
\* (lines 231-234); a scheduled job just ends.
Returned(how) ==
    /\ pc' = "idle"
    /\ result' = how
    /\ proc' = IF proc = "initial" THEN "scheduler" ELSE proc
    /\ ClearLocals

\* sync_to_sheet raises.  The initial call (line 229) is outside any try, so
\* the exception ends the process; the scheduler's executor logs the
\* exception of a job and keeps running.
Raised ==
    /\ pc' = "idle"
    /\ result' = "raised"
    /\ proc' = IF proc = "initial" THEN "dead" ELSE proc
    /\ ClearLocals

\* The process has not ended.
Alive == proc # "dead"

\* add_job (line 231) passes no max_instances: the scheduler's default of one
\* running instance per job applies.
MAX_INSTANCES == 1

\* Variant of CanSubmit for a scheduler that does not count the running
\* instances of a job.
CanSubmit_Always == TRUE

\* The scheduler submits a due job only while fewer than max_instances of it
\* are running; otherwise the run time is skipped with a warning.
CanSubmit == inflight < MAX_INSTANCES

\* A step of the execution in progress: the count of executions drops when
\* the step ends the run.
RunStep ==
    /\ inflight' = IF pc' = "idle" THEN inflight - 1 ELSE inflight
    /\ skipped' = FALSE
    /\ UNCHANGED << wksExists, wks0 >>

\* One upstream request and its outcome, for the history variables: the kind
\* of response, the page or batch asked for, the number of records, the ids
\* a batch response holds, and, for a page of the collector before the last
\* one, whether the response before it was a 429.
Requested(kind, p, n, ids) ==
    last' = [kind |-> kind, page |-> p, len |-> n, ids |-> ids,
             after429 |-> (pc = "fetch" /\ page < PAGES /\ last.kind = "429")]

\* Retries of the current page or batch, counted up to MaxAttempts (the
\* loops of lines 75 and 156 have no counter and no cap).
Retried == attempts' = Min(attempts + 1, MaxAttempts)

\* ------------------------------------------------- sync_to_sheet, 198-222
\* ensure_worksheet, lines 117-129: the worksheet is returned when the
\* spreadsheet has it and added, empty, when it has not; either way it
\* exists afterwards.
ensure_worksheet(exists) == [exists |-> TRUE, created |-> ~exists]

\* The branch the marker selects (line 206).
FullLoadBranch(header) == header # "ID"

\* Lines 218-221: the ids a refresh run works on.
RefreshIds(cached, sh) ==
    IF Falsy(cached) THEN Slice(ColValues1(sh), 1, TOTAL_COINS + 1) ELSE cached.val

sync_to_sheet ==
    /\ pc = "idle"
    /\ sheet0' = sheet
    /\ file0' = file
    /\ last' = NoResp
    /\ accepted' = << >>
    /\ wrote' = NoWrite
    /\ skipped' = FALSE
    /\ wks0' = wksExists
    /\ UNCHANGED << TOTAL_COINS, sheet, file, fullWritten >>
    /\ \E clientOk \in BOOLEAN, readOk \in BOOLEAN, colOk \in BOOLEAN :
         LET header == IF readOk THEN ReadA1(sheet) ELSE NoneVal
             cached == load_frozen_coins(file)
         IN  /\ wksExists' = IF clientOk THEN ensure_worksheet(wksExists).exists
                                         ELSE wksExists
             /\ IF ~clientOk
                THEN Raised
                ELSE IF FullLoadBranch(header)
                THEN /\ page' = 1
                     /\ pc' = IF PAGES >= 1 THEN "fetch" ELSE "collected"
                     /\ result' = "none"
                     /\ UNCHANGED << proc, items, coins, frozen_ids, i, prices,
                                     attempts >>
                ELSE IF Falsy(cached) /\ ~colOk
                THEN Raised
                ELSE /\ frozen_ids' = RefreshIds(cached, sheet)
                     /\ pc' = IF Len(frozen_ids') > 0 THEN "refresh" ELSE "write_prices"
                     /\ result' = "none"
                     /\ UNCHANGED << proc, page, items, coins, i, prices,
                                     attempts >>
    /\ inflight' = IF pc' = "idle" THEN inflight ELSE inflight + 1

\* line 229
InitialRun == proc = "initial" /\ sync_to_sheet

\* lines 231-234: a tick of the interval job while no instance of it is
\* running.  (With more instances allowed, a tick during a run would start a
\* second execution beside it.)
TickRun ==
    /\ proc = "scheduler"
    /\ CanSubmit
    /\ IF pc = "idle"
       THEN sync_to_sheet
       ELSE /\ inflight' = inflight + 1
            /\ UNCHANGED << TOTAL_COINS, sheet, file, proc, pc, locals, last,
                            accepted, sheet0, file0, result, wrote, fullWritten,
                            skipped, wksExists, wks0 >>

\* lines 231-234: a tick of the interval job while the previous execution is
\* still running; the scheduler skips it.
TickSkipped ==
    /\ proc = "scheduler"
    /\ ~CanSubmit
    /\ skipped' = TRUE
    /\ UNCHANGED << TOTAL_COINS, sheet, file, proc, pc, locals, last, accepted,
                    sheet0, file0, result, wrote, fullWritten, inflight,
                    wksExists, wks0 >>

\* ------------------------------------- fetch_top_coins_with_price, 66-115
\* The 200 payloads page p may carry: a list of 0..PER_PAGE records, a JSON
\* object, or a JSON scalar (null, a number).
ListPayload(data) == [kind |-> "list", data |-> data]
DictPayload == [kind |-> "dict", data |-> << >>]
ScalarPayload == [kind |-> "scalar", data |-> << >>]

PagePayloads(p) ==
    { ListPayload(SubSeq(FeedPage(r, p), 1, n)) :
        r \in Rankings, n \in 0..PER_PAGE }
    \cup { DictPayload, ScalarPayload }

\* len(data) is defined for lists and objects, and raises TypeError for a
\* scalar (line 89 evaluates it while building the message).
Sized(payload) == payload.kind \in {"list", "dict"}

\* Variant of PageRejected without the length test.
PageRejected_AnyList(payload) == payload.kind # "list"

\* line 87
PageRejected(payload) == payload.kind # "list" \/ Len(payload.data) < PER_PAGE

\* line 115
CollectorResult(its) == Take(its, TOTAL_COINS)

FetchCommon == Alive /\ pc = "fetch" /\ UNCHANGED << TOTAL_COINS, sheet, file, sheet0, file0, wrote, fullWritten >>

\* lines 84-90, 106-113: the payload passes the test and is appended.
FetchAccepted ==
    /\ FetchCommon
    /\ \E payload \in PagePayloads(page) :
         /\ ~PageRejected(payload)
         /\ Requested("ok", page, Len(payload.data), {})
         /\ accepted' = Append(accepted, payload.data)
         /\ items' = items \o ToItems(payload.data)
         /\ attempts' = 0
         /\ IF page < PAGES
            THEN /\ page' = page + 1
                 /\ UNCHANGED << pc, coins >>
            ELSE /\ coins' = CollectorResult(items')
                 /\ pc' = "collected"
                 /\ UNCHANGED page
         /\ UNCHANGED << proc, result, frozen_ids, i, prices >>
    /\ RunStep

\* lines 87-89, 100-103: ValueError, sleep 60 and repeat the page.
FetchRejected ==
    /\ FetchCommon
    /\ \E payload \in PagePayloads(page) :
         /\ PageRejected(payload)
         /\ Sized(payload)
         /\ Requested(payload.kind, page, Len(payload.data), {})
    /\ Retried
    /\ UNCHANGED << proc, pc, result, page, items, coins, frozen_ids, i, prices,
                    accepted >>
    /\ RunStep

\* line 89 with a payload that has no len(): TypeError leaves the function.
FetchUnsized ==
    /\ FetchCommon
    /\ \E payload \in PagePayloads(page) :
         /\ PageRejected(payload)
         /\ ~Sized(payload)
         /\ Requested(payload.kind, page, 0, {})
    /\ Raised
    /\ UNCHANGED accepted
    /\ RunStep

\* Variant of Fetch429 that gives the page up and goes on to the next one.
Fetch429_Skip ==
    /\ FetchCommon
    /\ page < PAGES
    /\ Requested("429", page, 0, {})
    /\ page' = page + 1
    /\ UNCHANGED << proc, pc, result, items, coins, frozen_ids, i, prices, attempts,
                    accepted >>
    /\ RunStep

\* Variant of Fetch429 with an attempt cap: after MaxAttempts retries of a
\* page the collector gives up and returns what it has.
Fetch429_Capped ==
    /\ FetchCommon
    /\ Requested("429", page, 0, {})
    /\ IF attempts < MaxAttempts
       THEN /\ Retried
            /\ UNCHANGED << proc, pc, result, page, items, coins, frozen_ids, i,
                            prices, accepted >>
       ELSE /\ coins' = items
            /\ pc' = "collected"
            /\ UNCHANGED << proc, result, page, items, frozen_ids, i, prices,
                            attempts, accepted >>
    /\ RunStep

\* lines 93-96
Fetch429 ==
    /\ FetchCommon
    /\ Requested("429", page, 0, {})
    /\ Retried
    /\ UNCHANGED << proc, pc, result, page, items, coins, frozen_ids, i, prices,
                    accepted >>
    /\ RunStep

\* lines 100-103 (RequestException)
FetchTransportError ==
    /\ FetchCommon
    /\ Requested("transport", page, 0, {})
    /\ Retried
    /\ UNCHANGED << proc, pc, result, page, items, coins, frozen_ids, i, prices,
                    accepted >>
    /\ RunStep

\* Variant of AbortResult that drops what was accumulated.
AbortResult_Empty(its) == << >>

\* What the collector returns on a non-429 HTTP status (line 99).
AbortResult(its) == its

\* lines 97-99
FetchHTTPError ==
    /\ FetchCommon
    /\ Requested("http_error", page, 0, {})
    /\ coins' = AbortResult(items)
    /\ pc' = "collected"
    /\ UNCHANGED << proc, result, page, items, frozen_ids, i, prices, attempts,
                    accepted >>
    /\ RunStep

\* -------------------------------------------- sync_to_sheet, lines 210-215
\* Variant of NothingCollected without the emptiness test.
NothingCollected_Never(cs) == FALSE

\* line 210
NothingCollected(cs) == Len(cs) = 0

\* lines 210-212
ReturnEmpty ==
    /\ Alive
    /\ pc = "collected"
    /\ NothingCollected(coins)
    /\ Returned("empty")
    /\ UNCHANGED << TOTAL_COINS, sheet, file, last, accepted, sheet0, file0,
                    wrote, fullWritten >>
    /\ RunStep

\* write_full_table, lines 137-139
TableValues(cs) ==
    << HeaderRow >> \o
    [k \in 1..Len(cs) |-> [a |-> cs[k].id, b |-> cs[k].symbol, c |-> cs[k].price]]

\* line 213: write_full_table; wks.update may raise.
WriteFullTable ==
    /\ Alive
    /\ pc = "collected"
    /\ ~NothingCollected(coins)
    /\ UNCHANGED << TOTAL_COINS, file, last, accepted, sheet0, file0 >>
    /\ \E ok \in BOOLEAN :
         IF ok
         THEN /\ sheet' = UpdateRangeABC(sheet, TableValues(coins))
              /\ wrote' = [range |-> "A1:C", last_row |-> Len(TableValues(coins)),
                           nrows |-> Len(TableValues(coins))]
              /\ fullWritten' = TRUE
              /\ pc' = "save"
              /\ UNCHANGED << proc, result, locals >>
         ELSE /\ Raised
              /\ UNCHANGED << sheet, wrote, fullWritten >>
    /\ RunStep

\* save_frozen_coins, lines 57-63: the file after the call.  open(.., "w")
\* failing leaves the file as it was; a failure after the open leaves a
\* truncated file that no longer parses.
SavedFile(f, ids, outcome) ==
    CASE outcome = "ok"          -> ListFile(ids)
      [] outcome = "open_failed" -> f
      [] OTHER                   -> CorruptFile

\* lines 214-215
SaveFrozen ==
    /\ Alive
    /\ pc = "save"
    /\ \E outcome \in {"ok", "open_failed", "dump_failed"} :
         file' = SavedFile(file, IdsOf(coins), outcome)
    /\ Returned("full")
    /\ UNCHANGED << TOTAL_COINS, sheet, last, accepted, sheet0, file0, wrote,
                    fullWritten >>
    /\ RunStep

\* ------------------------------------------- update_prices_only, 147-194
\* line 155
Chunk(ids, k) == Slice(ids, k, k + PER_PAGE)

\* line 185
PriceMap(data) ==
    [id \in { c.id : c \in data } |-> (CHOOSE c \in data : c.id = id).current_price]

\* Variant of ChunkPrices that emits a price only for the ids the response
\* holds (no sentinel for a missing id).
ChunkPrices_SkipMissing(chunk, data) ==
    LET F[k \in 0..Len(chunk)] ==
            IF k = 0 THEN << >>
            ELSE IF chunk[k] \in { c.id : c \in data }
                 THEN Append(F[k - 1], (CHOOSE c \in data : c.id = chunk[k]).current_price)
                 ELSE F[k - 1]
    IN  F[Len(chunk)]

\* Variant of ChunkPrices that emits the prices in the order of the response
\* (the ids found first, the sentinels after them).
ChunkPrices_FoundFirst(chunk, data) ==
    ChunkPrices_SkipMissing(chunk, data) \o
    [k \in 1..(Len(chunk) - Len(ChunkPrices_SkipMissing(chunk, data))) |-> Blank]

\* lines 186-187
ChunkPrices(chunk, data) ==
    [k \in 1..Len(chunk) |->
        IF chunk[k] \in DOMAIN PriceMap(data) THEN PriceMap(data)[chunk[k]] ELSE Blank]

RefreshCommon ==
    /\ Alive
    /\ pc = "refresh"
    /\ UNCHANGED << TOTAL_COINS, sheet, file, accepted, sheet0, file0, wrote,
                    fullWritten >>

\* lines 185-189 and the loop test of line 154
BatchDone(data) ==
    /\ prices' = prices \o ChunkPrices(Chunk(frozen_ids, i), data)
    /\ i' = i + PER_PAGE
    /\ attempts' = 0
    /\ pc' = IF i + PER_PAGE < Len(frozen_ids) THEN "refresh" ELSE "write_prices"
    /\ UNCHANGED << proc, result, page, items, coins, frozen_ids >>

\* Variant of RefreshOk that writes the price column collected so far after
\* every batch instead of once at the end.
RefreshOk_WriteThrough ==
    /\ Alive
    /\ pc = "refresh"
    /\ \E omit \in SUBSET { Chunk(frozen_ids, i)[k] : k \in 1..Len(Chunk(frozen_ids, i)) } :
         /\ Requested("ok", i \div PER_PAGE + 1,
                      Cardinality(FeedBatch(Chunk(frozen_ids, i), omit)),
                      { c.id : c \in FeedBatch(Chunk(frozen_ids, i), omit) })
         /\ BatchDone(FeedBatch(Chunk(frozen_ids, i), omit))
    /\ sheet' = UpdateRangeC(sheet, prices')
    /\ wrote' = [range |-> "C2:C", last_row |-> Len(prices') + 1,
                 nrows |-> Len(prices')]
    /\ UNCHANGED << TOTAL_COINS, file, accepted, sheet0, file0, fullWritten >>
    /\ RunStep

\* lines 166-169
RefreshOk ==
    /\ RefreshCommon
    /\ \E omit \in SUBSET { Chunk(frozen_ids, i)[k] : k \in 1..Len(Chunk(frozen_ids, i)) } :
         /\ Requested("ok", i \div PER_PAGE + 1,
                      Cardinality(FeedBatch(Chunk(frozen_ids, i), omit)),
                      { c.id : c \in FeedBatch(Chunk(frozen_ids, i), omit) })
         /\ BatchDone(FeedBatch(Chunk(frozen_ids, i), omit))
    /\ RunStep

\* Variant of RefreshHTTPError that treats the status like a 429: sleep and
\* ask for the batch again.
RefreshHTTPError_Retry ==
    /\ RefreshCommon
    /\ Requested("http_error", i \div PER_PAGE + 1, 0, {})
    /\ Retried
    /\ UNCHANGED << proc, pc, result, page, items, coins, frozen_ids, i, prices >>
    /\ RunStep

\* lines 176-179: data = [] and the batch is done
RefreshHTTPError ==
    /\ RefreshCommon
    /\ Requested("http_error", i \div PER_PAGE + 1, 0, {})
    /\ BatchDone({})
    /\ RunStep

\* lines 172-175
Refresh429 ==
    /\ RefreshCommon
    /\ Requested("429", i \div PER_PAGE + 1, 0, {})
    /\ Retried
    /\ UNCHANGED << proc, pc, result, page, items, coins, frozen_ids, i, prices >>
    /\ RunStep

\* lines 180-183
RefreshTransportError ==
    /\ RefreshCommon
    /\ Requested("transport", i \div PER_PAGE + 1, 0, {})
    /\ Retried
    /\ UNCHANGED << proc, pc, result, page, items, coins, frozen_ids, i, prices >>
    /\ RunStep

\* line 185 on a payload that is not a list of records: TypeError.
RefreshMalformed ==
    /\ RefreshCommon
    /\ Requested("malformed", i \div PER_PAGE + 1, 0, {})
    /\ Raised
    /\ RunStep

\* lines 191-194; wks.update may raise.
WritePrices ==
    /\ Alive
    /\ pc = "write_prices"
    /\ UNCHANGED << TOTAL_COINS, file, last, accepted, sheet0, file0,
                    fullWritten >>
    /\ \E ok \in BOOLEAN :
         IF ok
         THEN /\ sheet' = UpdateRangeC(sheet, prices)
              /\ wrote' = [range |-> "C2:C", last_row |-> Len(frozen_ids) + 1,
                           nrows |-> Len(prices)]
              /\ Returned("refresh")
         ELSE /\ Raised
              /\ UNCHANGED << sheet, wrote >>
    /\ RunStep

Next ==
    \/ InitialRun
    \/ TickRun
    \/ TickSkipped
    \/ FetchAccepted
    \/ FetchRejected
    \/ FetchUnsized
    \/ Fetch429
    \/ FetchTransportError
    \/ FetchHTTPError
    \/ ReturnEmpty
    \/ WriteFullTable
    \/ SaveFrozen
    \/ RefreshOk
    \/ RefreshHTTPError
    \/ Refresh429
    \/ RefreshTransportError
    \/ RefreshMalformed
    \/ WritePrices

Spec == Init /\ [][Next]_vars

\* ------------------------------------------------------ upstream answers
\* The upstream does not answer a page, or a batch, with retryable outcomes
\* for ever: a page is eventually answered with a full page or a non-429
\* HTTP status, and a batch with a 200 or a non-429 HTTP status.
UpstreamAnswers ==
    /\ WF_vars(FetchAccepted \/ FetchHTTPError)
    /\ WF_vars(RefreshOk \/ RefreshHTTPError)

\* The table a completed full load of ranking r leaves in the worksheet.
LoadedTable(r) ==
    UpdateRangeABC(<< >>,
        TableValues(CollectorResult(ToItems(Flatten([p \in 1..PAGES |-> FeedPage(r, p)])))))

\* One start of the process, against a store that is empty or that an
\* earlier life of the process has loaded, with the file saved or not.
RunInit ==
    /\ TOTAL_COINS \in TotalChoices
    /\ \/ /\ sheet = << >>
          /\ file = NoFile
          /\ wksExists \in BOOLEAN
          /\ fullWritten = FALSE
       \/ /\ \E r \in Rankings :
                /\ sheet = LoadedTable(r)
                /\ file \in {NoFile, ListFile(ColumnAIds(sheet))}
          /\ wksExists = TRUE
          /\ fullWritten = TRUE
    /\ wks0 = wksExists
    /\ sheet0 = sheet
    /\ file0 = file
    /\ proc = "initial"
    /\ pc = "idle"
    /\ page = 0
    /\ items = << >>
    /\ coins = << >>
    /\ frozen_ids = << >>
    /\ i = 0
    /\ prices = << >>
    /\ attempts = 0
    /\ last = NoResp
    /\ accepted = << >>
    /\ result = "none"
    /\ wrote = NoWrite
    /\ inflight = 0
    /\ skipped = FALSE

\* The steps of that one run (line 229).
RunNext ==
    \/ InitialRun
    \/ FetchAccepted
    \/ FetchRejected
    \/ FetchUnsized
    \/ Fetch429
    \/ FetchTransportError
    \/ FetchHTTPError
    \/ ReturnEmpty
    \/ WriteFullTable
    \/ SaveFrozen
    \/ RefreshOk
    \/ RefreshHTTPError
    \/ Refresh429
    \/ RefreshTransportError
    \/ RefreshMalformed
    \/ WritePrices

LiveSpec == RunInit /\ [][RunNext]_vars /\ UpstreamAnswers

\* --------------------------------------------------- external termination
\* The process is ended from outside (a signal, a kill) at any point, in a
\* run or between runs.  What the run had in memory is gone; the worksheet
\* and the file stay as they are at that point.
Interrupt ==
    /\ Alive
    /\ proc' = "dead"
    /\ pc' = "idle"
    /\ result' = IF pc = "idle" THEN result ELSE "interrupted"
    /\ ClearLocals
    /\ inflight' = 0
    /\ skipped' = FALSE
    /\ UNCHANGED << TOTAL_COINS, sheet, file, last, accepted, sheet0, file0,
                    wrote, fullWritten, wksExists, wks0 >>

InterruptNext == Next \/ Interrupt

InterruptSpec == Init /\ [][InterruptNext]_vars

\* ------------------------------------------- load_frozen_coins on its own
\* The contents frozen_coins.json may have when load_frozen_coins is called:
\* no file, an unreadable or unparsable file, a JSON list or a JSON value
\* that is not a list, of every length up to MaxFileLen.
FileElems == {"btc", "eth"}

SeqsUpTo(S, n) == UNION { [1..k -> S] : k \in 0..n }

FileChoices ==
    {NoFile, CorruptFile}
    \cup { ListFile(d) : d \in SeqsUpTo(FileElems, MaxFileLen) }
    \cup { NonListFile(d) : d \in SeqsUpTo(FileElems, MaxFileLen) }

LoadInit ==
    /\ TOTAL_COINS \in TotalChoices
    /\ file \in FileChoices
    /\ file0 = file
    /\ sheet = << >>
    /\ proc = "initial"
    /\ pc = "idle"
    /\ page = 0
    /\ items = << >>
    /\ coins = << >>
    /\ frozen_ids = << >>
    /\ i = 0
    /\ prices = << >>
    /\ attempts = 0
    /\ last = NoResp
    /\ accepted = << >>
    /\ sheet0 = << >>
    /\ result = "none"
    /\ wrote = NoWrite
    /\ fullWritten = FALSE
    /\ inflight = 0
    /\ skipped = FALSE
    /\ wksExists = TRUE
    /\ wks0 = TRUE

\* line 218: frozen_ids = load_frozen_coins()
LoadCall ==
    /\ pc = "idle"
    /\ frozen_ids' = load_frozen_coins(file)
    /\ pc' = "loaded"
    /\ UNCHANGED << TOTAL_COINS, sheet, file, proc, page, items, coins, i, prices,
                    attempts, last, accepted, sheet0, file0, result, wrote,
                    fullWritten, inflight, skipped, wksExists, wks0 >>

LoadNext == LoadCall

LoadSpec == LoadInit /\ [][LoadNext]_vars

\* ======================================================== the claims
InFullLoad == pc \in {"fetch", "collected", "save"}
InRefresh == pc \in {"refresh", "write_prices"}
Distinct(s) == \A j, k \in 1..Len(s) : j # k => s[j] # s[k]
\* The source's sizes: PER_PAGE divides TOTAL_COINS (250 and 2000).
SourceSizes == TOTAL_COINS % PER_PAGE = 0

\* C1: once a full load has written the table, no later run starts the
\* full-universe collector again (every later run that gets past the client
\* takes the refresh branch), whatever the read of A1 returns.  Stated for
\* the source's sizes.
C1_NoSecondFullLoad ==
    [][(SourceSizes /\ fullWritten /\ pc = "idle" /\ pc' # "idle")
          => pc' \in {"refresh", "write_prices"}]_vars

\* C2: in a refresh run the ids handed to update_prices_only are, element
\* for element, the ids in column A rows 2.., and so every price a refresh
\* has written stands in the row of its own id.
C2_RowAlignment ==
    /\ InRefresh => frozen_ids = ColumnAIds(sheet)
    /\ (pc = "idle" /\ result = "refresh") =>
          \A k \in 2..Len(sheet) : sheet[k].c \in {Blank, PriceOf(sheet[k].a)}

\* C3: a full load that writes the table writes the header and exactly
\* TOTAL_COINS rows, and the frozen set it saves has TOTAL_COINS ids (stated
\* for a universe size that PER_PAGE divides, as in the source).
C3_FullLoadWritesTotal ==
    SourceSizes =>
        /\ wrote.range = "A1:C" => wrote.nrows = TOTAL_COINS + 1
        /\ pc = "save" => Len(IdsOf(coins)) = TOTAL_COINS
        /\ file.kind = "list" => Len(file.data) = TOTAL_COINS

\* C4: the price column a refresh writes has one entry per input id: it is as
\* long as the id sequence, whatever the feed answered, and it goes to rows
\* 2..len+1 of column C.
C4_RefreshLength ==
    [][(pc = "write_prices" /\ wrote'.range = "C2:C") =>
          /\ Len(prices) = Len(frozen_ids)
          /\ wrote'.nrows = Len(frozen_ids)
          /\ wrote'.last_row = Len(frozen_ids) + 1
          /\ \A k \in 1..Len(frozen_ids) : sheet'[k + 1].c = prices[k]]_vars

\* A refresh over four ids, with an id missing from a response, was written.
C4_Witness ==
    /\ pc = "idle" /\ result = "refresh"
    /\ wrote.range = "C2:C" /\ wrote.nrows = 4
    /\ \E k \in 2..Len(sheet) : sheet[k].c = Blank

\* C5: a refresh run changes nothing but column C of rows 2..: row 1,
\* columns A and B and the frozen-set file are as they were when it started.
C5_RefreshFrame ==
    (InRefresh \/ (pc = "idle" /\ result = "refresh")) =>
        /\ file = file0
        /\ Len(sheet) > 0 /\ Len(sheet0) > 0 /\ sheet[1] = sheet0[1]
        /\ \A k \in 1..Max(Len(sheet), Len(sheet0)) :
              /\ RowOr(sheet, k).a = RowOr(sheet0, k).a
              /\ RowOr(sheet, k).b = RowOr(sheet0, k).b

\* A refresh run has ended and did change the worksheet.
C5_Witness == pc = "idle" /\ result = "refresh" /\ sheet # sheet0

\* C6: when the collector returns nothing, the run's next step ends it with
\* no store write and no save (store and file are as at the start of the
\* run); and if the store was uninitialized it still is, so the next run
\* collects again from page 1.
C6_EmptyAbort ==
    /\ [][(pc = "collected" /\ Len(coins) = 0 /\ ~skipped') =>
            /\ pc' = "idle" /\ result' = "empty"
            /\ sheet' = sheet0 /\ file' = file0 /\ wrote' = NoWrite]_vars
    /\ [][(pc = "idle" /\ result = "empty" /\ ReadA1(sheet0) # "ID" /\ pc' # "idle") =>
            /\ ReadA1(sheet) # "ID"
            /\ pc' = "fetch" /\ page' = 1 /\ items' = << >>]_vars

\* A run ended empty after a non-429 HTTP error on page 1.
C6_Witness ==
    pc = "idle" /\ result = "empty" /\ last.kind = "http_error" /\ last.page = 1

C8_ShortPageRetried ==
    [][(SourceSizes /\ pc = "fetch" /\ last'.kind \in {"list", "dict", "scalar"}) =>
          /\ pc' = "fetch" /\ page' = page /\ items' = items]_vars

C10_DistinctIds ==
    (SourceSizes /\ pc \in {"collected", "save"} /\ last.kind # "http_error")
        => Distinct(IdsOf(coins))

\* C11: a finished batch appends one price per id of the batch, in batch
\* order: the price the response reports for the id when the response holds
\* it, the empty sentinel when it does not; the prices of earlier batches
\* stay where they are.
C11_MissingSentinel ==
    [][(pc = "refresh" /\ pc' \in {"refresh", "write_prices"} /\ i' # i) =>
          /\ Len(prices') = Len(prices) + Len(Chunk(frozen_ids, i))
          /\ SubSeq(prices', 1, Len(prices)) = prices
          /\ \A k \in 1..Len(Chunk(frozen_ids, i)) :
                prices'[Len(prices) + k] =
                    IF Chunk(frozen_ids, i)[k] \in last'.ids
                    THEN PriceOf(Chunk(frozen_ids, i)[k])
                    ELSE Blank]_vars

\* A response held the second id of a batch and not the first.
C11_Witness ==
    /\ InRefresh /\ last.kind = "ok" /\ last.len = 1
    /\ Len(prices) >= 2 /\ prices[1] = Blank /\ prices[2] # Blank

\* C12: a non-429 HTTP error on a refresh batch ends that batch without a
\* retry, gives every id of the batch the empty sentinel, and the run goes
\* on: to the next batch when there is one, to the write of the price column
\* when there is none.
C12_DegradedBatch ==
    [][(pc = "refresh" /\ last'.kind = "http_error" /\ last'.page = i \div PER_PAGE + 1) =>
          /\ i' = i + PER_PAGE
          /\ prices' = prices \o [k \in 1..Len(Chunk(frozen_ids, i)) |-> Blank]
          /\ pc' = IF i + PER_PAGE < Len(frozen_ids) THEN "refresh" ELSE "write_prices"
          /\ frozen_ids' = frozen_ids
          /\ proc' = proc /\ result' = result]_vars

\* The first batch was degraded and the second batch is being requested.
C12_Witness ==
    /\ pc = "refresh" /\ last.kind = "http_error" /\ last.page = 1
    /\ i = PER_PAGE /\ prices = << Blank, Blank >>

\* What a collection returns for the accepted payloads when every page
\* succeeds at once.
ImmediateItems(payloads) == ToItems(Flatten(payloads))

\* C13: the records collected depend on the accepted payloads only: with any
\* number of 429 responses before a page succeeds, the items are those of the
\* run in which every page succeeds at once (none added, dropped or doubled).
C13_RetryTransparent ==
    /\ pc = "fetch" =>
          /\ Len(accepted) = page - 1
          /\ items = ImmediateItems(accepted)
    /\ (pc = "collected" /\ last.kind = "ok") =>
          /\ Len(accepted) = PAGES
          /\ coins = Take(ImmediateItems(accepted), TOTAL_COINS)

\* Page 1 succeeded right after a 429 and the collector holds its records.
C13_Witness ==
    /\ pc = "fetch"
    /\ page = 2
    /\ last.kind = "ok"
    /\ last.after429
    /\ Len(items) = PER_PAGE

\* C14: single flight.  At no time is more than one execution of
\* sync_to_sheet in progress, and none is counted while no run is in
\* progress; a tick that fires during a run, however long the run's retries
\* last, is skipped: it starts no execution and changes neither the run, the
\* worksheet nor the file.
C14_SingleFlight ==
    /\ [](inflight \in {0, 1} /\ (inflight = 1 <=> pc # "idle"))
    /\ [][(~skipped /\ skipped') =>
             /\ pc # "idle"
             /\ inflight' = inflight
             /\ << pc, locals, sheet, file, proc >>' = << pc, locals, sheet, file, proc >>]_vars

\* A tick was skipped while a scheduled run was waiting to retry a page.
C14_Witness ==
    /\ skipped
    /\ inflight = 1
    /\ pc = "fetch"
    /\ attempts >= 1
    /\ last.kind \in {"429", "transport", "list"}

\* C15: the process survives a bad run.  Whenever a run, initial or
\* scheduled, ends by raising, the process is still alive after it (and so a
\* later tick can start another run).
C15_SurvivesBadRun ==
    [][(pc' = "idle" /\ result' = "raised") => proc' # "dead"]_vars

\* C16: load_frozen_coins returns a sequence exactly when the file holds a
\* list of at least TOTAL_COINS elements, and then the first TOTAL_COINS
\* elements of the file in file order; for a missing, unreadable or
\* unparsable file, a value that is not a list, or a shorter list it returns
\* None.  The call always returns (nothing is raised) and leaves the file as
\* it was.
C16_FrozenLoad ==
    pc = "loaded" =>
        /\ frozen_ids.some <=> (file.kind = "list" /\ Len(file.data) >= TOTAL_COINS)
        /\ frozen_ids.some =>
              /\ Len(frozen_ids.val) = TOTAL_COINS
              /\ \A k \in 1..TOTAL_COINS : frozen_ids.val[k] = file.data[k]
        /\ ~frozen_ids.some => frozen_ids = None
        /\ proc = "initial" /\ result = "none"
        /\ file = file0

\* A list longer than TOTAL_COINS was loaded.
C16_Witness ==
    /\ pc = "loaded"
    /\ frozen_ids.some
    /\ file.kind = "list"
    /\ Len(file.data) > TOTAL_COINS

\* A run issues at most one range write: a step of a run that issues a write
\* is the first of that run to do so, and the cells change in no other step.
OneWritePerRun ==
    /\ [][(pc # "idle" /\ wrote' # wrote) => wrote = NoWrite]_vars
    /\ [][(sheet' # sheet) => (pc # "idle" /\ wrote' # wrote)]_vars

\* A run that still has requests to make has written nothing, and once a run
\* has issued its write it makes no upstream request.
WriteAfterRequests ==
    /\ [](pc \in {"fetch", "refresh"} => wrote = NoWrite)
    /\ [][(pc # "idle" /\ wrote # NoWrite) => last' = last]_vars

\* A run was ended from outside before it issued its write.
EndedBeforeWrite == result = "interrupted" /\ wrote = NoWrite

\* C17 as stated: each run issues at most one write to the store, after all
\* of its upstream requests, and a run ended at any point before that write
\* leaves the store (the worksheet's existence and its cells) and the
\* frozen-set file exactly as they were when the run started.
C17_InterruptSafety ==
    /\ OneWritePerRun
    /\ WriteAfterRequests
    /\ [](EndedBeforeWrite =>
            (wksExists = wks0 /\ sheet = sheet0 /\ file = file0))

\* C17, amended: each run issues at most one range write, after all of its
\* upstream requests, and a run ended at any point before that write leaves
\* every cell of the worksheet and the frozen-set file as they were when the
\* run started; the one change such a run can have made to the store is
\* that it added the worksheet, still empty, when the spreadsheet had none.
C17_InterruptSafetyAmended ==
    /\ OneWritePerRun
    /\ WriteAfterRequests
    /\ [](EndedBeforeWrite =>
            /\ sheet = sheet0
            /\ file = file0
            /\ wksExists # wks0 => (~wks0 /\ wksExists /\ sheet = << >>))

\* A run that added the worksheet and had made requests was ended before
\* its write.
C17_Witness ==
    /\ EndedBeforeWrite
    /\ last.kind # "none"
    /\ wksExists
    /\ ~wks0

\* The outcomes after which a page, or a batch, is asked for again.
RetryablePage == {"429", "transport", "list", "dict"}
RetryableBatch == {"429", "transport"}

\* C18: a retryable outcome (HTTP 429, transport error, short or non-list
\* page) leaves the collector on the same page with what it has collected,
\* and a refresh on the same batch, however many retries went before, so
\* the loop does not return while such outcomes keep coming; and when the
\* upstream eventually answers every page (batch) with a full page (a 200)
\* or a non-429 HTTP status, the collection (the refresh loop) eventually
\* ends.
C18_RetryAndTermination ==
    /\ [][(pc = "fetch" /\ last'.kind \in RetryablePage) =>
             (pc' = "fetch" /\ page' = page /\ items' = items)]_vars
    /\ [][(pc = "refresh" /\ last'.kind \in RetryableBatch) =>
             (pc' = "refresh" /\ i' = i /\ prices' = prices)]_vars
    /\ (pc = "fetch") ~> (pc # "fetch")
    /\ (pc = "refresh") ~> (pc # "refresh")

\* A page was answered 429 again after the retries counted had reached
\* MaxAttempts, and the collector is still on it.
C18_Witness ==
    /\ pc = "fetch"
    /\ last.kind = "429"
    /\ last.after429
    /\ attempts = MaxAttempts
    /\ page = 1

\* The file holds a list of ids and the worksheet holds the table of the
\* same load: marker "ID" and those ids, in that order, in column A.
FileMatchesTable ==
    /\ ReadA1(sheet) = "ID"
    /\ Len(sheet) >= Len(file.data) + 1
    /\ \A k \in 1..Len(file.data) : sheet[k + 1].a = file.data[k]

\* C19: in a full load the file is saved only after write_full_table has
\* returned: the file changes only in the step after the table write of the
\* same run, and what is saved are the ids of the table the worksheet holds
\* at that moment; so in every state in which the file holds a list of ids,
\* the worksheet holds the table of that load with marker "ID"; a table
\* write that failed or was interrupted leaves the file as it was.  Stated
\* for the source's sizes.
C19_SaveAfterWrite ==
    /\ [][(SourceSizes /\ file' # file) =>
             /\ pc = "save"
             /\ wrote.range = "A1:C"
             /\ sheet' = sheet
             /\ file'.kind = "list" => (FileMatchesTable)']_vars
    /\ [][(pc = "collected" /\ pc' = "idle") => file' = file]_vars
    /\ []((SourceSizes /\ file.kind = "list") => FileMatchesTable)

====
